---------------------------- MODULE Spec2Model ----------------------------
(***************************************************************************)
(* Model of the anime-analysis utilities:                                  *)
(*   scripts/anime_query.py   -- AnimeDetailsQuery, three lookups over a   *)
(*                               remote catalog (requests.get)             *)
(*   scripts/visualization.py -- plot_donut_chart, plot_bar,               *)
(*                               plot_horizontal_bar                       *)
(* Three specifications share the variables: SpecClient drives the client, *)
(* SpecBar the two bar charts, SpecDonut the donut chart.                  *)
(***************************************************************************)
EXTENDS Integers, Sequences, FiniteSets, TLC

VARIABLES
    client_id,  \* the argument given to AnimeDetailsQuery.__init__
    self,       \* the client instance: its attributes
    pc,         \* where the running lookup stands: idle, await_search, await_detail
    op,         \* the lookup that runs or ran last
    name,       \* its argument
    anime_id,   \* get_anime_genres' local variable
    sent,       \* the requests.get calls of the current lookup, in order
    resps,      \* what the transport answered to each, in order
    outcome,    \* how the last lookup ended: return value or raised exception
    column,     \* plot_bar / plot_horizontal_bar: the Series argument
    limit,      \* plot_bar / plot_horizontal_bar: the limit argument
    chart,      \* what the bar chart function computed and drew
    df,         \* plot_donut_chart: the cells of df[column], one per row of df
    donut       \* what plot_donut_chart computed

clientVars == <<client_id, self, pc, op, name, anime_id, sent, resps, outcome>>
barVars == <<column, limit, chart>>
donutVars == <<df, donut>>
vars == <<client_id, self, pc, op, name, anime_id, sent, resps, outcome,
          column, limit, chart, df, donut>>

(***************************************************************************)
(* Python values, as far as the lookups distinguish them.  A str is the    *)
(* sequence of its characters.  A dict is a function on its keys.          *)
(***************************************************************************)
PyNone == [t |-> "None"]
PyInt(n) == [t |-> "int", v |-> n]
PyStr(s) == [t |-> "str", v |-> s]
PyList(s) == [t |-> "list", v |-> s]
PyDict(f) == [t |-> "dict", v |-> f]
EmptyDict == PyDict(<<>>)

\* How an expression or a call ends.
Return(v) == [kind |-> "return", exc |-> "", val |-> v]
Raise(e) == [kind |-> "raise", exc |-> e, val |-> PyNone]
NoOutcome == [kind |-> "running", exc |-> "", val |-> PyNone]

\* o[key] for a str key
GetKey(o, key) ==
    IF o.t = "dict"
    THEN IF key \in DOMAIN o.v THEN Return(o.v[key]) ELSE Raise("KeyError")
    ELSE Raise("TypeError")

\* o[i] for an int i >= 0
GetIndex(o, i) ==
    CASE o.t = "dict" -> Raise("KeyError")
      [] o.t = "list" -> IF i + 1 \in DOMAIN o.v THEN Return(o.v[i + 1])
                                               ELSE Raise("IndexError")
      [] o.t = "str"  -> IF i + 1 \in DOMAIN o.v THEN Return(PyStr(<<o.v[i + 1]>>))
                                               ELSE Raise("IndexError")
      [] OTHER        -> Raise("TypeError")

\* r[key] and r[i] where r is the outcome of the expression to the left
ThenKey(r, key) == IF r.kind = "raise" THEN r ELSE GetKey(r.val, key)
ThenIndex(r, i) == IF r.kind = "raise" THEN r ELSE GetIndex(r.val, i)

(***************************************************************************)
(* The transport: requests.get either raises (ConnectionError, Timeout) or *)
(* returns a response with a status code and a body.                       *)
(***************************************************************************)
HTTP_OK == 200

Response(status, valid, json) ==
    [fault |-> "", status_code |-> status, valid |-> valid, json |-> json]
Fault(e) ==
    [fault |-> e, status_code |-> 0, valid |-> FALSE, json |-> PyNone]

\* requests.get returned a response
Delivered(r) == r.fault = ""

\* response.json(): the parsed body, or JSONDecodeError (a ValueError)
Json(response) ==
    IF response.valid THEN Return(response.json) ELSE Raise("JSONDecodeError")

\* except (KeyError, IndexError, TypeError): return None
Caught == {"KeyError", "IndexError", "TypeError"}
TryExcept(r) == IF r.kind = "raise" /\ r.exc \in Caught THEN Return(PyNone) ELSE r


(***************************************************************************)
(* AnimeDetailsQuery                                                       *)
(***************************************************************************)
\* __init__: self.headers = {'X-MAL-CLIENT-ID': client_id}
Headers(cid) == [X_MAL_CLIENT_ID |-> cid]
NewClient(cid) == [headers |-> Headers(cid)]

\* requests.get(f'https://api.myanimelist.net/v2/anime?q={name}&limit=1', headers=self.headers)
SearchRequest(this, n) ==
    [endpoint |-> "/v2/anime?q={name}&limit=1", q |-> n, id |-> PyNone,
     headers |-> this.headers]

\* DetailRequest without headers=self.headers
DetailRequestNoAuth(this, id) ==
    [endpoint |-> "/v2/anime/{anime_id}?fields=genres", q |-> "", id |-> id,
     headers |-> [X_MAL_CLIENT_ID |-> ""]]

\* requests.get(f'https://api.myanimelist.net/v2/anime/{anime_id}?fields=genres', headers=self.headers)
DetailRequest(this, id) ==
    [endpoint |-> "/v2/anime/{anime_id}?fields=genres", q |-> "", id |-> id,
     headers |-> this.headers]

\* ExtractId without the status check
ExtractIdAnyStatus(response) ==
    TryExcept(ThenKey(ThenKey(ThenIndex(ThenKey(Json(response),
              "data"), 0), "node"), "id"))

\* get_anime_id, after requests.get returned `response`
ExtractId(response) ==
    IF response.status_code = HTTP_OK
    THEN TryExcept(ThenKey(ThenKey(ThenIndex(ThenKey(Json(response),
                   "data"), 0), "node"), "id"))
    ELSE Return(PyNone)

\* r[-1]
ThenLast(r) ==
    IF r.kind = "raise" THEN r
    ELSE IF r.val.t \in {"list", "str"} THEN GetIndex(r.val, Len(r.val.v) - 1)
    ELSE GetIndex(r.val, 0)

\* ExtractTitle reading ['data'][-1] for ['data'][0]
ExtractTitleLast(response) ==
    IF response.status_code = HTTP_OK
    THEN TryExcept(ThenKey(ThenKey(ThenLast(ThenKey(Json(response),
                   "data")), "node"), "title"))
    ELSE Return(PyNone)

\* get_anime_name, after requests.get returned `response`
ExtractTitle(response) ==
    IF response.status_code = HTTP_OK
    THEN TryExcept(ThenKey(ThenKey(ThenIndex(ThenKey(Json(response),
                   "data"), 0), "node"), "title"))
    ELSE Return(PyNone)

\* the keys of a dict, as the list a for loop over it walks
RECURSIVE KeysOf(_)
KeysOf(f) ==
    IF DOMAIN f = {} THEN <<>>
    ELSE LET k == CHOOSE k \in DOMAIN f : TRUE
         IN  <<PyStr(<<k>>)>> \o KeysOf([j \in DOMAIN f \ {k} |-> f[j]])

\* for genre in o
IterItems(o) ==
    CASE o.t = "list" -> Return(PyList(o.v))
      [] o.t = "str"  -> Return(PyList([i \in DOMAIN o.v |-> PyStr(<<o.v[i]>>)]))
      [] o.t = "dict" -> Return(PyList(KeysOf(o.v)))
      [] OTHER        -> Raise("TypeError")

\* [genre['name'] for genre in items]
RECURSIVE NamesOf(_)
NamesOf(items) ==
    IF Len(items) = 0 THEN Return(PyList(<<>>))
    ELSE LET h == GetKey(Head(items), "name")
         IN  IF h.kind = "raise" THEN h
             ELSE LET r == NamesOf(Tail(items))
                  IN  IF r.kind = "raise" THEN r
                      ELSE Return(PyList(<<h.val>> \o r.val.v))

\* the characters of sep.join(xs) for a list xs of str
RECURSIVE JoinStr(_, _)
JoinStr(sep, xs) ==
    IF Len(xs) = 0 THEN <<>>
    ELSE IF Len(xs) = 1 THEN xs[1].v
    ELSE xs[1].v \o sep \o JoinStr(sep, Tail(xs))

\* sep.join(xs): TypeError unless every item is a str
Join(sep, xs) ==
    IF \E i \in DOMAIN xs : xs[i].t # "str" THEN Raise("TypeError")
    ELSE Return(PyStr(JoinStr(sep, xs)))

\* ',' for ', '
CommaOnly == <<",">>

CommaSpace == <<",", " ">>

\* ', '.join([genre['name'] for genre in response.json()['genres']])
GenresExpr(response) ==
    LET g == ThenKey(Json(response), "genres")
    IN  IF g.kind = "raise" THEN g
        ELSE LET it == IterItems(g.val)
             IN  IF it.kind = "raise" THEN it
                 ELSE LET ns == NamesOf(it.val.v)
                      IN  IF ns.kind = "raise" THEN ns
                          ELSE Join(CommaSpace, ns.val.v)

\* get_anime_genres, after the detail requests.get returned `response`
ExtractGenres(response) ==
    IF response.status_code = HTTP_OK
    THEN TryExcept(GenresExpr(response))
    ELSE Return(PyNone)

(***************************************************************************)
(* What the callers and the catalog service may supply.                    *)
(***************************************************************************)
MaxResults == 2     \* entries of a search response's data array
MaxGenres == 3      \* entries of a detail response's genres array

Credentials == {"id-A", "id-B"}
Names == {"naruto"}
Statuses == {HTTP_OK, 204, 404}
Faults == {"ConnectionError", "Timeout"}

Title(i) == IF i = 1 THEN PyStr(<<"O", "n", "e">>) ELSE PyStr(<<"T", "w", "o">>)
Entry(node) == PyDict([node |-> node])
Nodes ==
    {PyDict([id |-> PyInt(1), title |-> Title(1)]),
     PyDict([id |-> PyInt(0)]),                  \* no title
     PyDict([title |-> Title(2)]),               \* no id
     PyDict([id |-> PyNone, title |-> PyNone])}  \* JSON nulls
Entries == {Entry(n) : n \in Nodes} \cup {EmptyDict}  \* EmptyDict: no node

ListsOf(S, n) == UNION {[1..k -> S] : k \in 0..n}

DataValues ==
    {PyList(l) : l \in ListsOf(Entries, MaxResults)}
    \cup {EmptyDict, PyNone, PyStr(<<"x">>)}
SearchJson ==
    {PyDict([data |-> d]) : d \in DataValues}
    \cup {EmptyDict, PyNone, PyInt(7), PyList(<<>>)}

Genre(n) == PyDict([id |-> PyInt(1), name |-> n])
GenreNames == {PyStr(<<"A">>), PyStr(<<"B">>), PyStr(<<"C">>)}
GoodGenres == {Genre(n) : n \in GenreNames}
BadGenres == {EmptyDict,            \* no name
              Genre(PyInt(5)),      \* a name that is no string
              PyStr(<<"A">>)}       \* an entry that is no object
GenreLists ==
    ListsOf(GoodGenres, MaxGenres)
    \cup {l \o <<b>> : l \in ListsOf(GoodGenres, MaxGenres - 1), b \in BadGenres}
GenresValues ==
    {PyList(l) : l \in GenreLists}
    \cup {EmptyDict, PyDict([a |-> PyInt(1)]), PyNone, PyStr(<<>>), PyStr(<<"A">>)}
DetailJson ==
    {PyDict([id |-> PyInt(1), genres |-> g]) : g \in GenresValues}
    \cup {EmptyDict, PyNone, PyList(<<>>)}

\* everything requests.get may do for a request: answer, or raise
Answers(jsons) ==
    {Response(st, TRUE, j) : st \in Statuses, j \in jsons}
    \cup {Response(st, FALSE, PyNone) : st \in Statuses}
    \cup {Fault(e) : e \in Faults}
SearchAnswers == Answers(SearchJson)
DetailAnswers == Answers(DetailJson)

(***************************************************************************)
(* The lookups, step by step: the call up to its requests.get, then the    *)
(* rest of the method once the transport has answered.                     *)
(***************************************************************************)
InitClient ==
    /\ client_id \in Credentials
    /\ self = NewClient(client_id)
    /\ pc = "idle"
    /\ op = "none"
    /\ name = ""
    /\ anime_id = PyNone
    /\ sent = <<>>
    /\ resps = <<>>
    /\ outcome = NoOutcome

\* a lookup is called and issues its search request
Enter(o, n) ==
    /\ pc' = "await_search"
    /\ op' = o
    /\ name' = n
    /\ anime_id' = PyNone
    /\ sent' = <<SearchRequest(self, n)>>
    /\ resps' = <<>>
    /\ outcome' = NoOutcome
    /\ UNCHANGED <<client_id, self, barVars, donutVars>>

\* a lookup ends: it returns, or an exception leaves it
Leave(r, out) ==
    /\ pc' = "idle"
    /\ resps' = Append(resps, r)
    /\ outcome' = out
    /\ UNCHANGED <<client_id, self, op, name, sent, barVars, donutVars>>

\* Propagate inside a try that returns None
PropagateAsNone(r) == Return(PyNone)

\* requests.get raised: the exception leaves the method
Propagate(r) == Raise(r.fault)

get_anime_id(n) ==
    /\ pc = "idle"
    /\ Enter("get_anime_id", n)

\* get_anime_id_return asking once more after a status that is not 200
get_anime_id_return_retry(r) ==
    /\ pc = "await_search" /\ op = "get_anime_id"
    /\ IF Delivered(r) /\ r.status_code # HTTP_OK /\ Len(sent) = 1
       THEN /\ sent' = Append(sent, SearchRequest(self, name))
            /\ resps' = Append(resps, r)
            /\ UNCHANGED <<client_id, self, pc, op, name, outcome,
                           barVars, donutVars>>
       ELSE Leave(r, IF r.fault # "" THEN Propagate(r) ELSE ExtractId(r))
    /\ UNCHANGED anime_id

get_anime_id_return(r) ==
    /\ pc = "await_search" /\ op = "get_anime_id"
    /\ Leave(r, IF r.fault # "" THEN Propagate(r) ELSE ExtractId(r))
    /\ UNCHANGED anime_id

get_anime_name(n) ==
    /\ pc = "idle"
    /\ Enter("get_anime_name", n)

get_anime_name_return(r) ==
    /\ pc = "await_search" /\ op = "get_anime_name"
    /\ Leave(r, IF r.fault # "" THEN Propagate(r) ELSE ExtractTitle(r))
    /\ UNCHANGED anime_id

get_anime_genres(n) ==
    /\ pc = "idle"
    /\ Enter("get_anime_genres", n)

\* get_anime_genres_id without `if anime_id is None: return anime_id`
get_anime_genres_id_noshort(r) ==
    /\ pc = "await_search" /\ op = "get_anime_genres"
    /\ LET got == IF r.fault # "" THEN Propagate(r) ELSE ExtractId(r)
       IN  IF got.kind = "raise"
           THEN /\ Leave(r, got)
                /\ UNCHANGED anime_id
           ELSE /\ anime_id' = got.val
                /\ sent' = Append(sent, DetailRequest(self, got.val))
                /\ resps' = Append(resps, r)
                /\ pc' = "await_detail"
                /\ UNCHANGED <<client_id, self, op, name, outcome,
                                barVars, donutVars>>

\* anime_id = self.get_anime_id(name); if anime_id is None: return anime_id;
\* else the detail request
get_anime_genres_id(r) ==
    /\ pc = "await_search" /\ op = "get_anime_genres"
    /\ LET got == IF r.fault # "" THEN Propagate(r) ELSE ExtractId(r)
       IN  IF got.kind = "raise" \/ got.val.t = "None"
           THEN /\ Leave(r, got)
                /\ UNCHANGED anime_id
           ELSE /\ anime_id' = got.val
                /\ sent' = Append(sent, DetailRequest(self, got.val))
                /\ resps' = Append(resps, r)
                /\ pc' = "await_detail"
                /\ UNCHANGED <<client_id, self, op, name, outcome,
                                barVars, donutVars>>

get_anime_genres_return(r) ==
    /\ pc = "await_detail" /\ op = "get_anime_genres"
    /\ Leave(r, IF r.fault # "" THEN Propagate(r) ELSE ExtractGenres(r))
    /\ UNCHANGED anime_id

NextClient ==
    \/ \E n \in Names : get_anime_id(n)
    \/ \E r \in SearchAnswers : get_anime_id_return(r)
    \/ \E n \in Names : get_anime_name(n)
    \/ \E r \in SearchAnswers : get_anime_name_return(r)
    \/ \E n \in Names : get_anime_genres(n)
    \/ \E r \in SearchAnswers : get_anime_genres_id(r)
    \/ \E r \in DetailAnswers : get_anime_genres_return(r)

(***************************************************************************)
(* visualization.py: a cell of a column is a value or missing (NaN).       *)
(***************************************************************************)
MaxRows == 5        \* rows of a column given to a bar chart
MaxLimit == 2       \* the largest limit given to a bar chart
MaxDonutRows == 10  \* rows of a dataset given to the donut chart

NaN == [na |-> TRUE, v |-> ""]
Value(l) == [na |-> FALSE, v |-> l]
Labels == {"a", "b", "Other"}
Cells == {NaN} \cup {Value(l) : l \in Labels}
DonutCells == {NaN, Value("x")}

Min(a, b) == IF a < b THEN a ELSE b

RECURSIVE SumCounts(_)
SumCounts(t) == IF Len(t) = 0 THEN 0 ELSE Head(t).count + SumCounts(Tail(t))

\* column.value_counts(): the distinct values that are not missing, each
\* with the number of its rows
Occurrences(col, l) == Cardinality({i \in DOMAIN col : col[i] = Value(l)})
Distinct(col) == {col[i].v : i \in {j \in DOMAIN col : ~col[j].na}}

\* .sort_values(ascending=False): the table in descending count order;
\* the order among equal counts is not fixed
SortedCounts(col) ==
    LET ls == Distinct(col)
        k  == Cardinality(ls)
    IN  {[i \in 1..k |-> [label |-> o[i], count |-> Occurrences(col, o[i])]] :
           o \in {f \in [1..k -> ls] :
                    /\ \A i, j \in 1..k : i # j => f[i] # f[j]
                    /\ \A i, j \in 1..k :
                         i < j => Occurrences(col, f[i]) >= Occurrences(col, f[j])}}

\* type_counts.head(limit), limit >= 0
HeadOf(t, lim) == SubSeq(t, 1, Min(lim, Len(t)))
\* type_counts[limit:], limit >= 0
TailFrom(t, lim) == SubSeq(t, lim + 1, Len(t))

\* top_categories['Other'] = other_count: the entry labelled 'Other' is
\* set when the table has one, and appended when it has none
SetOther(t, n) ==
    IF \E i \in DOMAIN t : t[i].label = "Other"
    THEN [i \in DOMAIN t |-> IF t[i].label = "Other"
                             THEN [label |-> "Other", count |-> n] ELSE t[i]]
    ELSE Append(t, [label |-> "Other", count |-> n])

\* the table the bars are drawn from
TopCategories(type_counts, lim) ==
    IF Len(type_counts) > lim
    THEN SetOther(HeadOf(type_counts, lim), SumCounts(TailFrom(type_counts, lim)))
    ELSE HeadOf(type_counts, lim)

\* f'{(value/total)*100:.0f}': the nearest integer, a tie to the even one
\* (the quotient taken exactly, without the rounding of float division)
Percent(value, total) ==
    LET q == (100 * value) \div total
        r == (100 * value) % total
    IN  IF 2 * r < total THEN q
        ELSE IF 2 * r > total THEN q + 1
        ELSE IF q % 2 = 0 THEN q ELSE q + 1

\* the text above (beside) each bar
Annotations(top) ==
    [i \in DOMAIN top |-> Percent(top[i].count, SumCounts(top))]

NoChart ==
    [fn |-> "none", type_counts |-> <<>>, top_categories |-> <<>>,
     annotations |-> <<>>, shown |-> FALSE]

\* either bar chart, with the sorted table it started from; max() of an
\* empty table raises before plt.show()
Draw(fn, type_counts, lim) ==
    LET top == TopCategories(type_counts, lim)
    IN  [fn |-> fn, type_counts |-> type_counts, top_categories |-> top,
         annotations |-> Annotations(top), shown |-> Len(top) > 0]

plot_bar ==
    /\ \E tc \in SortedCounts(column) : chart' = Draw("plot_bar", tc, limit)
    /\ UNCHANGED <<column, limit, clientVars, donutVars>>

plot_horizontal_bar ==
    /\ \E tc \in SortedCounts(column) :
          chart' = Draw("plot_horizontal_bar", tc, limit)
    /\ UNCHANGED <<column, limit, clientVars, donutVars>>

InitBar ==
    /\ column \in ListsOf(Cells, MaxRows)
    /\ limit \in 0..MaxLimit
    /\ chart = NoChart

\* df[column].isna().sum()
MissingCount(cells) == Cardinality({i \in DOMAIN cells : cells[i].na})

\* Sizes with the two slices in the other order
SizesSwapped(cells) ==
    LET missing_count == MissingCount(cells)
        filled_count  == Len(cells) - missing_count
    IN  <<filled_count, missing_count>>

\* sizes = [missing_count, filled_count]
Sizes(cells) ==
    LET missing_count == MissingCount(cells)
        filled_count  == Len(cells) - missing_count
    IN  <<missing_count, filled_count>>

NoDonut == [called |-> FALSE, sizes |-> <<>>, labels |-> <<>>]

plot_donut_chart ==
    /\ donut' = [called |-> TRUE, sizes |-> Sizes(df),
                 labels |-> <<"missing", "filled">>]
    /\ UNCHANGED <<df, clientVars, barVars>>

InitDonut ==
    /\ df \in ListsOf(DonutCells, MaxDonutRows)
    /\ donut = NoDonut

(***************************************************************************)
(* The specifications                                                      *)
(***************************************************************************)
IdleClient ==
    /\ client_id = "id-A"
    /\ self = NewClient(client_id)
    /\ pc = "idle" /\ op = "none" /\ name = "" /\ anime_id = PyNone
    /\ sent = <<>> /\ resps = <<>> /\ outcome = NoOutcome
IdleBar == column = <<>> /\ limit = 0 /\ chart = NoChart
IdleDonut == df = <<>> /\ donut = NoDonut

InitClientSpec == InitClient /\ IdleBar /\ IdleDonut
SpecClient == InitClientSpec /\ [][NextClient]_vars

NextBar == plot_bar \/ plot_horizontal_bar
InitBarSpec == InitBar /\ IdleClient /\ IdleDonut
SpecBar == InitBarSpec /\ [][NextBar]_vars

NextDonut == plot_donut_chart
InitDonutSpec == InitDonut /\ IdleClient /\ IdleBar
SpecDonut == InitDonutSpec /\ [][NextDonut]_vars

(***************************************************************************)
(* Vocabulary of the properties.  The shapes below are read off the        *)
(* response itself, not computed by the methods.                           *)
(***************************************************************************)
SearchEndpoint == "/v2/anime?q={name}&limit=1"
DetailEndpoint == "/v2/anime/{anime_id}?fields=genres"
Lookups == {"get_anime_id", "get_anime_name", "get_anime_genres"}
Done == pc = "idle" /\ op \in Lookups
Absent == outcome = Return(PyNone)
Is2xx(status) == status >= 200 /\ status < 300

\* the body is JSON {"data": [ ... ]}
HasDataArray(r) ==
    /\ r.valid /\ r.json.t = "dict" /\ "data" \in DOMAIN r.json.v
    /\ r.json.v.data.t = "list"
\* ... whose first entry is {"node": {field: ...}}
FirstHas(r, field) ==
    /\ HasDataArray(r) /\ Len(r.json.v.data.v) >= 1
    /\ LET e == r.json.v.data.v[1]
       IN  /\ e.t = "dict" /\ "node" \in DOMAIN e.v
           /\ e.v.node.t = "dict" /\ field \in DOMAIN e.v.node.v
FirstField(r, field) == r.json.v.data.v[1].v.node.v[field]

\* the body is JSON {"genres": [{"name": <str>}, ...]}
HasGenreNames(r) ==
    /\ r.valid /\ r.json.t = "dict" /\ "genres" \in DOMAIN r.json.v
    /\ r.json.v.genres.t = "list"
    /\ \A i \in DOMAIN r.json.v.genres.v :
          LET g == r.json.v.genres.v[i]
          IN  g.t = "dict" /\ "name" \in DOMAIN g.v /\ g.v.name.t = "str"
GenreNamesIn(r) ==
    [i \in DOMAIN r.json.v.genres.v |-> r.json.v.genres.v[i].v.name.v]

\* the search step handed get_anime_genres an identifier
SearchGaveId(r) ==
    /\ Delivered(r) /\ r.status_code = HTTP_OK
    /\ FirstHas(r, "id") /\ FirstField(r, "id").t # "None"

(***************************************************************************)
(* Properties of AnimeDetailsQuery, checked under SpecClient               *)
(***************************************************************************)

\* C1: short-circuit.  Whenever the get_anime_id step of get_anime_genres
\* has returned None, the lookup is over, it returned None, and its search
\* request is the only request it issued: no detail request exists.
C1_ShortCircuit ==
    (/\ op = "get_anime_genres" /\ Len(resps) >= 1
     /\ Delivered(resps[1]) /\ ExtractId(resps[1]) = Return(PyNone))
    => /\ pc = "idle" /\ Absent
       /\ Len(sent) = 1 /\ Len(resps) = 1
       /\ sent[1].endpoint = SearchEndpoint

\* a get_anime_genres whose search came back 200 with an empty data array
C1_Witness ==
    /\ Done /\ op = "get_anime_genres" /\ Len(resps) = 1
    /\ resps[1].status_code = HTTP_OK /\ HasDataArray(resps[1])
    /\ Len(resps[1].json.v.data.v) = 0
    /\ Absent /\ Len(sent) = 1

\* C2: a search response with a non-2xx status makes each of the three
\* lookups return None (nothing is raised), whatever its body; and
\* get_anime_genres returns None when its detail response has a non-2xx
\* status.
C2_Non2xxIsAbsent ==
    Done =>
      /\ (Delivered(resps[1]) /\ ~Is2xx(resps[1].status_code)) => Absent
      /\ (/\ op = "get_anime_genres" /\ Len(resps) = 2
          /\ Delivered(resps[2]) /\ ~Is2xx(resps[2].status_code)) => Absent

\* get_anime_id on a 404 whose body does carry an identifier
C2_Witness ==
    /\ Done /\ op = "get_anime_id"
    /\ resps[1].status_code = 404 /\ FirstHas(resps[1], "id")
    /\ FirstField(resps[1], "id") = PyInt(1)
    /\ Absent

\* get_anime_genres on a 404 detail response that does carry genre names
C2_WitnessDetail ==
    /\ Done /\ op = "get_anime_genres" /\ Len(resps) = 2
    /\ resps[2].status_code = 404 /\ HasGenreNames(resps[2])
    /\ Len(resps[2].json.v.genres.v) = 2
    /\ Absent

\* the response that decided how the lookup ended is malformed for it
Malformed(o, rs) ==
    LET r == rs[Len(rs)]
    IN  IF o = "get_anime_genres" /\ Len(rs) = 2 THEN ~HasGenreNames(r)
        ELSE IF o = "get_anime_name" THEN ~FirstHas(r, "title")
        ELSE ~FirstHas(r, "id")

\* C3: every delivered response with a malformed payload (no JSON, JSON
\* of the wrong type, a missing key, an empty data array) makes the lookup
\* return None; nothing is raised.
C3_MalformedIsAbsent ==
    (Done /\ Delivered(resps[Len(resps)]) /\ Malformed(op, resps))
    => Absent

\* the body is JSON {"genres": g} with g an empty string or an empty object
HasEmptyNonArrayGenres(r) ==
    /\ r.valid /\ r.json.t = "dict" /\ "genres" \in DOMAIN r.json.v
    /\ r.json.v.genres.t \in {"str", "dict"}
    /\ DOMAIN r.json.v.genres.v = {}

\* C3, for the bodies that parse as JSON: there the lookups return None,
\* but for a genres value that is an empty string or an empty object, which
\* the join walks like an empty array
C3_MalformedJsonIsAbsent ==
    (/\ Done /\ Delivered(resps[Len(resps)]) /\ resps[Len(resps)].valid
     /\ Malformed(op, resps)
     /\ ~(Len(resps) = 2 /\ resps[2].status_code = HTTP_OK
          /\ HasEmptyNonArrayGenres(resps[2])))
    => Absent

\* C3: a genres value that is an empty string or an empty object gives ''
C3_EmptyNonArrayGivesEmptyString ==
    (/\ Done /\ Len(resps) = 2 /\ Delivered(resps[2])
     /\ resps[2].status_code = HTTP_OK /\ HasEmptyNonArrayGenres(resps[2]))
    => outcome = Return(PyStr(<<>>))

\* C3: where it fails, a status 200 whose body is no JSON raises
C3_NotJsonRaises ==
    (/\ Done /\ Delivered(resps[Len(resps)])
     /\ resps[Len(resps)].status_code = HTTP_OK /\ ~resps[Len(resps)].valid)
    => outcome = Raise("JSONDecodeError")

\* C4 as stated: a search that succeeds (2xx) with a first entry gives
\* get_anime_id that entry's id and get_anime_name that entry's title; an
\* empty data array gives None.
C4_FirstEntryOn2xx ==
    (Done /\ Delivered(resps[1]) /\ Is2xx(resps[1].status_code)) =>
      /\ (op = "get_anime_id" /\ FirstHas(resps[1], "id"))
            => outcome = Return(FirstField(resps[1], "id"))
      /\ (op = "get_anime_name" /\ FirstHas(resps[1], "title"))
            => outcome = Return(FirstField(resps[1], "title"))
      /\ (/\ op \in {"get_anime_id", "get_anime_name"}
          /\ HasDataArray(resps[1]) /\ Len(resps[1].json.v.data.v) = 0)
            => Absent

\* C4, amended: the same for a search answered with status 200, the one
\* status the lookups take as success; an empty data array gives None
\* under every status.
C4_FirstEntryOn200 ==
    (Done /\ Delivered(resps[1])) =>
      /\ (/\ op = "get_anime_id" /\ resps[1].status_code = HTTP_OK
          /\ FirstHas(resps[1], "id"))
            => outcome = Return(FirstField(resps[1], "id"))
      /\ (/\ op = "get_anime_name" /\ resps[1].status_code = HTTP_OK
          /\ FirstHas(resps[1], "title"))
            => outcome = Return(FirstField(resps[1], "title"))
      /\ (/\ op \in {"get_anime_id", "get_anime_name"}
          /\ HasDataArray(resps[1]) /\ Len(resps[1].json.v.data.v) = 0)
            => Absent

\* get_anime_name on a 200 with two entries returns the first one's title
C4_Witness ==
    /\ Done /\ op = "get_anime_name" /\ resps[1].status_code = HTTP_OK
    /\ FirstHas(resps[1], "title") /\ Len(resps[1].json.v.data.v) = 2
    /\ FirstField(resps[1], "title") = Title(2)
    /\ resps[1].json.v.data.v[2] = Entry(PyDict([id |-> PyInt(1), title |-> Title(1)]))
    /\ outcome = Return(Title(2))

\* get_anime_id on a 200 with two entries returns the first one's id
C4_WitnessId ==
    /\ Done /\ op = "get_anime_id" /\ resps[1].status_code = HTTP_OK
    /\ FirstHas(resps[1], "id") /\ Len(resps[1].json.v.data.v) = 2
    /\ resps[1].json.v.data.v[2] = Entry(PyDict([id |-> PyInt(1), title |-> Title(1)]))
    /\ outcome = Return(PyInt(0))

\* where the i-th name starts in the joined string, counted from 0
RECURSIVE Offset(_, _)
Offset(ns, i) == IF i = 1 THEN 0 ELSE Offset(ns, i - 1) + Len(ns[i - 1]) + 2

\* s is the names ns in order, ", " between neighbours and nothing else
IsCommaSpaceJoin(s, ns) ==
    IF Len(ns) = 0 THEN Len(s) = 0
    ELSE /\ Len(s) = Offset(ns, Len(ns)) + Len(ns[Len(ns)])
         /\ \A i \in DOMAIN ns :
               /\ SubSeq(s, Offset(ns, i) + 1, Offset(ns, i) + Len(ns[i])) = ns[i]
               /\ i < Len(ns) =>
                    /\ s[Offset(ns, i) + Len(ns[i]) + 1] = ","
                    /\ s[Offset(ns, i) + Len(ns[i]) + 2] = " "

\* the detail request went out for the identifier of the search's first entry
DetailForSearchedId ==
    /\ Len(sent) = 2 /\ sent[2].endpoint = DetailEndpoint
    /\ SearchGaveId(resps[1])
    /\ sent[2].id = FirstField(resps[1], "id")

C6_WitnessSearch ==
    /\ Done /\ op = "get_anime_name" /\ resps = <<Fault("ConnectionError")>>
    /\ outcome = Raise("ConnectionError") /\ Len(sent) = 1

\* C7: get_anime_id and get_anime_name issue exactly one request, the
\* search; get_anime_genres issues the search and then at most the detail
\* request, the detail request only when the search gave an identifier; no
\* request is ever issued twice, whatever the responses were.
C7_RequestCount ==
    /\ Len(sent) <= 2 /\ Len(resps) <= Len(sent)
    /\ op \in Lookups =>
         /\ Len(sent) >= 1 /\ sent[1].endpoint = SearchEndpoint
         /\ op \in {"get_anime_id", "get_anime_name"} => Len(sent) = 1
         /\ Len(sent) = 2 =>
              /\ op = "get_anime_genres"
              /\ sent[2].endpoint = DetailEndpoint
              /\ SearchGaveId(resps[1])
    /\ pc = "idle" => Len(resps) = Len(sent)
    /\ pc = "await_search" => (Len(sent) = 1 /\ Len(resps) = 0)
    /\ pc = "await_detail" => (Len(sent) = 2 /\ Len(resps) = 1)

\* a get_anime_genres that went through both requests and got None
C7_Witness ==
    /\ Done /\ op = "get_anime_genres" /\ Len(sent) = 2 /\ Len(resps) = 2
    /\ resps[2].status_code = 404 /\ Absent

\* a get_anime_id that got a 404 and left it at its one request
C7_WitnessOne ==
    /\ Done /\ op = "get_anime_id" /\ Len(sent) = 1
    /\ resps[1].status_code = 404 /\ Absent

\* C10: the client's header is at all times the credential it was built
\* with, every request of a lookup carried exactly that header, and the
\* client holds nothing but its headers: no lookup leaves a result on it.
C10_Credential ==
    /\ self = [headers |-> [X_MAL_CLIENT_ID |-> client_id]]
    /\ \A i \in DOMAIN sent :
          sent[i].headers = [X_MAL_CLIENT_ID |-> client_id]

\* a client built with "id-B" after a get_anime_genres that raised on its
\* detail request
C10_Witness ==
    /\ client_id = "id-B" /\ Done /\ op = "get_anime_genres"
    /\ Len(sent) = 2 /\ outcome.kind = "raise"
    /\ sent[2].headers.X_MAL_CLIENT_ID = "id-B"

(***************************************************************************)
(* Properties of the charts, checked under SpecBar and SpecDonut           *)
(***************************************************************************)
\* the rows of col that hold one of the labels ls
RowsOf(col, ls) ==
    Cardinality({i \in DOMAIN col : ~col[i].na /\ col[i].v \in ls})

\* the table top shows column's `lim` most frequent categories in
\* descending count order, then 'Other' with the rest exactly when more
\* than lim categories exist, and each annotation is the nearest whole
\* percentage of the entry in the table's total
IsTopK(top, notes, col, lim) ==
    LET all  == Distinct(col)
        k    == Min(lim, Cardinality(all))
        kept == {top[i].label : i \in 1..k}
    IN  /\ Len(top) >= k
        /\ \A i \in 1..k :
              /\ top[i].label \in all
              /\ top[i].count = RowsOf(col, {top[i].label})
              /\ \A l \in all \ kept : RowsOf(col, {l}) <= top[i].count
        /\ \A i, j \in 1..k :
              i < j => top[i].label # top[j].label /\ top[i].count >= top[j].count
        /\ IF Cardinality(all) > lim
           THEN /\ Len(top) = lim + 1
                /\ top[lim + 1] = [label |-> "Other",
                                   count |-> RowsOf(col, all \ kept)]
           ELSE Len(top) = k
        /\ SumCounts(top) = RowsOf(col, all)
        /\ DOMAIN notes = DOMAIN top
        /\ \A i \in DOMAIN top :
              LET d == notes[i] * SumCounts(top) - 100 * top[i].count
              IN  2 * d <= SumCounts(top) /\ -2 * d <= SumCounts(top)

\* C8: for every column, whatever its labels, and every limit >= 0, both
\* bar charts show the `limit` most frequent categories in descending count
\* order; exactly when more than `limit` categories exist, one more entry
\* 'Other' comes last with the sum of the remaining counts, so that limit+1
\* entries are shown and their total is the total of all counts; each
\* annotation is the entry's share of that total.
C8_TopK ==
    chart.fn # "none" =>
       IsTopK(chart.top_categories, chart.annotations, column, limit)

\* a category of the column that is itself labelled 'Other' is kept among
\* the top `limit` while other categories are collapsed
OtherClash ==
    /\ Len(chart.type_counts) > limit
    /\ \E i \in 1..limit : chart.type_counts[i].label = "Other"

\* C8, away from that clash: there the table is as C8 says
C8_TopKNoClash ==
    (chart.fn # "none" /\ ~OtherClash) =>
       IsTopK(chart.top_categories, chart.annotations, column, limit)

\* C8, in the clash: the table has `limit` entries, the count of the
\* column's own 'Other' is replaced by the remainder's, and is lost
C8_ClashOverwrites ==
    (chart.fn # "none" /\ OtherClash) =>
       /\ Len(chart.top_categories) = limit
       /\ SumCounts(chart.top_categories)
             = RowsOf(column, Distinct(column)) - RowsOf(column, {"Other"})

\* C9: the slices are [missing, present] in this order: the first is the
\* number of missing entries of the column, the second the number of rows
\* less that; both are non-negative and they add up to the number of rows.
C9_Sizes ==
    donut.called =>
       LET m == Cardinality({i \in DOMAIN df : df[i] = NaN})
       IN  /\ donut.sizes = <<m, Len(df) - m>>
           /\ donut.sizes[1] >= 0 /\ donut.sizes[2] >= 0
           /\ donut.sizes[1] + donut.sizes[2] = Len(df)

\* 3 missing entries in 10 rows: [3, 7]
C9_Witness ==
    /\ donut.called /\ Len(df) = 10
    /\ Cardinality({i \in DOMAIN df : df[i] = NaN}) = 3
    /\ donut.sizes = <<3, 7>>

=============================================================================
